---- MODULE Spec2Model ----
(***************************************************************************)
(* A model of the course marketplace web application (klevinn/CWC-App-Sec). *)
(* Five parts of the program are modelled, each with its own variables and  *)
(* its own next-state relation:                                             *)
(*   - the /search handler's bucketing loop        (routes/General.py)      *)
(*   - get_pagination_arr                          (NormalFunctions.py)     *)
(*   - the user table and the routes that use it   (__init__.py,            *)
(*                                                  IntegratedFunctions.py) *)
(*   - pwd_is_strong and pwd_has_been_pwned        (NormalFunctions.py)     *)
(*   - the Cloud KMS helpers                       (NormalFunctions.py)     *)
(***************************************************************************)
EXTENDS Integers, Sequences, FiniteSets, TLC

VARIABLES
    \* ---- /search handler (routes/General.py, search) ----
    spc,              \* position of the handler
    searchLen,        \* len(searchInput)
    page,             \* request.args.get("p", default=1, type=int)
    foundResults,     \* list returned by sql_operation(mode="search")
    idx,              \* number of elements of foundResults the for loop has consumed
    eachPageResults,
    dictOfResults,
    pageNum,
    maxPage,
    shown,            \* the list handed to the template as foundResults
    \* ---- get_pagination_arr ----
    ppc,              \* "idle" or "returned"
    argPageNum,       \* the pageNum argument
    argMaxPage,       \* the maxPage argument
    arr,              \* the returned tuple
    \* ---- the database and the browser session (__init__.py, IntegratedFunctions.py) ----
    users,            \* the user table: id -> row, for the ids that have a row
    courses,          \* the course table: the rows in insertion order
    session,          \* session["user"], or None
    resp,             \* the last response: <<route, outcome>>
    \* ---- pwd_is_strong (NormalFunctions.py) ----
    qpc,              \* "idle" or "returned"
    qpassword,        \* the password argument
    qstrict,          \* the strict argument
    qret,             \* the value returned
    \* ---- pwd_has_been_pwned (NormalFunctions.py) ----
    hpc,              \* "idle", "request", "sleep" or "returned"
    password,         \* the password argument
    hashPrefix,
    hashSuffix,
    sent,             \* the range prefixes requested so far, in order
    statuses,         \* the status codes received so far, in order
    response,         \* the last response: [status_code, lines, text]
    results,
    hret,             \* the value returned: [type, val]
    \* ---- the Cloud KMS helpers (NormalFunctions.py) ----
    kpc,              \* "idle" or "returned"
    kfn,              \* the function called
    karg,             \* its argument: a value [type, data]
    kdecode,          \* symmetric_decrypt's decode argument
    kanswer,          \* what the KMS API does with the request, if one is sent
    kret              \* the outcome of the call

searchVars == <<spc, searchLen, page, foundResults, idx, eachPageResults,
                dictOfResults, pageNum, maxPage, shown>>
pagVars == <<ppc, argPageNum, argMaxPage, arr>>
dbVars == <<users, courses, session, resp>>
strongVars == <<qpc, qpassword, qstrict, qret>>
pwnedVars == <<hpc, password, hashPrefix, hashSuffix, sent, statuses, response, results, hret>>
pwdVars == <<strongVars, pwnedVars>>
kmsVars == <<kpc, kfn, karg, kdecode, kanswer, kret>>
vars == <<searchVars, pagVars, dbVars, pwdVars, kmsVars>>

\* ------------------------------------------------------------------------
\* Helpers
\* ------------------------------------------------------------------------
Min(a, b) == IF a < b THEN a ELSE b
Max(a, b) == IF a > b THEN a ELSE b
MaxOf(S) == CHOOSE m \in S : \A k \in S : k <= m
SeqRange(s) == {s[k] : k \in DOMAIN s}
None == "None"
\* Python's True and False where the value may also be a string or None
True == "True"
False == "False"

\* Python's tuple(range(a, b)): a, a+1, ..., b-1
Range(a, b) == [k \in 1..Max(0, b - a) |-> a + k - 1]

\* ------------------------------------------------------------------------
\* Bounds
\* ------------------------------------------------------------------------
MaxResults == 21       \* longest result list the search returns
MaxPageParam == 4      \* largest p url argument tried
MaxPageArg == 12       \* largest pageNum / maxPage given to get_pagination_arr
MaxCourses == 2        \* course ids 1..MaxCourses appear in requests
MaxCourseRows == 2     \* rows the course table may hold
MaxLines == 2          \* lines in a body the range API sends
MaxRetries == 2        \* 429 answers the range API gives to one call
MaxDataLen == 2        \* longest plaintext / ciphertext of the short KMS calls
MaxTokenChars == 4     \* longest tokenInput given to decode_and_decrypt_token

\* ------------------------------------------------------------------------
\* Program constants
\* ------------------------------------------------------------------------
PageSize == 10         \* results per page
MaxSearchLen == 100    \* longest search string accepted
MinStrength == 3       \* predicates a password must match
HashLen == 40          \* characters of a SHA-1 hex digest
PrefixLen == 5         \* characters of the digest sent to the range API
TokenLen == 240        \* characters of a valid reset password token
TOKEN_ENCRYPTION_KEY_ID == "token-key"

\* ------------------------------------------------------------------------
\* /search
\* ------------------------------------------------------------------------
InitSearch ==
    /\ spc = "idle"
    /\ searchLen = 0
    /\ page = 1
    /\ foundResults = <<>>
    /\ idx = 0
    /\ eachPageResults = <<>>
    /\ dictOfResults = <<>>
    /\ pageNum = 1
    /\ maxPage = 0
    /\ shown = None

\* lines 128-137: the arguments are read, the locals are set up, the query runs.
\* The rows found are distinct courses, here 1..n in the order the query gave.
SearchRequest(n, p, qlen) ==
    /\ spc = "idle"
    /\ searchLen' = qlen
    /\ IF qlen > MaxSearchLen
       THEN /\ spc' = "abort413"
            /\ UNCHANGED <<page, foundResults>>
       ELSE /\ page' = p
            /\ foundResults' = [k \in 1..n |-> k]
            /\ spc' = IF n # 0 THEN "loop" ELSE "render_empty"
    /\ UNCHANGED <<idx, eachPageResults, dictOfResults, pageNum, maxPage, shown>>

\* the loop body with a page number skipped when a page is full
SearchLoopStep_skipPage ==
    /\ spc = "loop"
    /\ idx < Len(foundResults)
    /\ LET i == foundResults[idx + 1] IN
       IF Len(eachPageResults) # PageSize
       THEN /\ eachPageResults' = Append(eachPageResults, i)
            /\ dictOfResults' = [k \in DOMAIN dictOfResults \cup {pageNum} |->
                                   IF k = pageNum THEN Append(eachPageResults, i)
                                                  ELSE dictOfResults[k]]
            /\ UNCHANGED pageNum
       ELSE /\ dictOfResults' = [k \in DOMAIN dictOfResults \cup {pageNum} |->
                                   IF k = pageNum THEN eachPageResults
                                                  ELSE dictOfResults[k]]
            /\ eachPageResults' = <<i>>
            /\ pageNum' = pageNum + 2
    /\ idx' = idx + 1
    /\ UNCHANGED <<spc, searchLen, page, foundResults, maxPage, shown>>

\* lines 147-154: one iteration of the for loop. dictOfResults[pageNum] holds
\* the list object eachPageResults itself, so an append shows in the dictionary.
SearchLoopStep ==
    /\ spc = "loop"
    /\ idx < Len(foundResults)
    /\ LET i == foundResults[idx + 1] IN
       IF Len(eachPageResults) # PageSize
       THEN /\ eachPageResults' = Append(eachPageResults, i)
            /\ dictOfResults' = [k \in DOMAIN dictOfResults \cup {pageNum} |->
                                   IF k = pageNum THEN Append(eachPageResults, i)
                                                  ELSE dictOfResults[k]]
            /\ UNCHANGED pageNum
       ELSE /\ dictOfResults' = [k \in DOMAIN dictOfResults \cup {pageNum} |->
                                   IF k = pageNum THEN eachPageResults
                                                  ELSE dictOfResults[k]]
            /\ eachPageResults' = <<i>>
            /\ pageNum' = pageNum + 1
    /\ idx' = idx + 1
    /\ UNCHANGED <<spc, searchLen, page, foundResults, maxPage, shown>>

\* lines 160-169: the loop is over; maxPage, the 404 check, the template.
\* dictOfResults[page] with page not a key is a KeyError nothing catches.
SearchFinish ==
    /\ spc = "loop"
    /\ idx = Len(foundResults)
    /\ maxPage' = MaxOf(DOMAIN dictOfResults)
    /\ IF page > maxPage'
       THEN spc' = "abort404" /\ UNCHANGED shown
       ELSE IF page \in DOMAIN dictOfResults
            THEN spc' = "rendered" /\ shown' = dictOfResults[page]
            ELSE spc' = "KeyError" /\ UNCHANGED shown
    /\ UNCHANGED <<searchLen, page, foundResults, idx, eachPageResults,
                   dictOfResults, pageNum>>

\* lines 171-176: nothing was found; the template gets the empty dictionary.
SearchRenderEmpty ==
    /\ spc = "render_empty"
    /\ spc' = "rendered"
    /\ shown' = dictOfResults
    /\ UNCHANGED <<searchLen, page, foundResults, idx, eachPageResults,
                   dictOfResults, pageNum, maxPage>>

NextSearch ==
    \/ \E n \in 0..MaxResults, p \in -1..MaxPageParam, qlen \in {7, MaxSearchLen + 1} :
          SearchRequest(n, p, qlen) /\ UNCHANGED <<pagVars, dbVars, pwdVars, kmsVars>>
    \/ SearchLoopStep /\ UNCHANGED <<pagVars, dbVars, pwdVars, kmsVars>>
    \/ SearchFinish /\ UNCHANGED <<pagVars, dbVars, pwdVars, kmsVars>>
    \/ SearchRenderEmpty /\ UNCHANGED <<pagVars, dbVars, pwdVars, kmsVars>>

\* ------------------------------------------------------------------------
\* get_pagination_arr
\* ------------------------------------------------------------------------
\* get_pagination_arr with the end of the last window's range one too low
get_pagination_arr_shortEnd(pageNumArg, maxPageArg) ==
    LET p == IF pageNumArg > maxPageArg THEN maxPageArg ELSE pageNumArg IN
    IF maxPageArg < 6 THEN Range(1, maxPageArg + 1)
    ELSE IF p < 4 THEN <<1, 2, 3, 4, 5>>
    ELSE LET currentFromMax == maxPageArg - p IN
         IF currentFromMax <= 2 THEN Range(maxPageArg - 4, maxPageArg)
         ELSE Range(p - 2, p + 3)

\* get_pagination_arr with the first window kept up to page 4
get_pagination_arr_lowFour(pageNumArg, maxPageArg) ==
    LET p == IF pageNumArg > maxPageArg THEN maxPageArg ELSE pageNumArg IN
    IF maxPageArg < 6 THEN Range(1, maxPageArg + 1)
    ELSE IF p < 5 THEN <<1, 2, 3, 4, 5>>
    ELSE LET currentFromMax == maxPageArg - p IN
         IF currentFromMax <= 2 THEN Range(maxPageArg - 4, maxPageArg + 1)
         ELSE Range(p - 2, p + 3)

\* lines 120-145
get_pagination_arr(pageNumArg, maxPageArg) ==
    LET p == IF pageNumArg > maxPageArg THEN maxPageArg ELSE pageNumArg IN
    IF maxPageArg < 6 THEN Range(1, maxPageArg + 1)
    ELSE IF p < 4 THEN <<1, 2, 3, 4, 5>>
    ELSE LET currentFromMax == maxPageArg - p IN
         IF currentFromMax <= 2 THEN Range(maxPageArg - 4, maxPageArg + 1)
         ELSE Range(p - 2, p + 3)

InitPag ==
    /\ ppc = "idle"
    /\ argPageNum = 1
    /\ argMaxPage = 1
    /\ arr = <<>>

PaginationCall(pn, mp) ==
    /\ ppc = "idle"
    /\ argPageNum' = pn
    /\ argMaxPage' = mp
    /\ arr' = get_pagination_arr(pn, mp)
    /\ ppc' = "returned"

NextPag ==
    \E pn \in 1..MaxPageArg, mp \in 1..MaxPageArg :
        PaginationCall(pn, mp) /\ UNCHANGED <<searchVars, dbVars, pwdVars, kmsVars>>


\* ------------------------------------------------------------------------
\* The user table and its operations (IntegratedFunctions.py, user_sql_operation)
\* ------------------------------------------------------------------------
UserIDs == {"u1", "u2"}
CourseIDs == 1..MaxCourses
\* the sign-up forms tried: two distinct people, and one reusing alice's email
SignupForms ==
    { [username |-> "alice", email |-> "alice@x", password |-> "pw1"],
      [username |-> "bob",   email |-> "bob@x",   password |-> "pw1"],
      [username |-> "carol", email |-> "alice@x", password |-> "pw2"] }

Rows(tbl) == DOMAIN tbl
In(x, s) == \E k \in DOMAIN s : s[k] = x

\* Python's list.remove(x): drops the first occurrence of x
RECURSIVE RemoveFirst(_, _)
RemoveFirst(s, x) ==
    IF s = <<>> THEN <<>>
    ELSE IF Head(s) = x THEN Tail(s)
    ELSE <<Head(s)>> \o RemoveFirst(Tail(s), x)

\* lines 180-197, mode "insert": [ret, dupes, tbl]; ret is the new id, or None
\* when the pair dupes = (emailDupe, usernameDupes) is returned instead.
\* newID is the id generate_id() returns.
insert(tbl, newID, form) ==
    LET emailDupe == \E u \in Rows(tbl) : tbl[u].email = form.email
        usernameDupes == \E u \in Rows(tbl) : tbl[u].username = form.username
    IN IF emailDupe \/ usernameDupes
       THEN [ret |-> None, dupes |-> <<emailDupe, usernameDupes>>, tbl |-> tbl]
       ELSE [ret |-> newID, dupes |-> <<FALSE, FALSE>>,
             tbl |-> [u \in Rows(tbl) \cup {newID} |->
                        IF u = newID
                        THEN [role |-> "Student", username |-> form.username,
                              email |-> form.email, password |-> form.password,
                              profile_image |-> None, card |-> None,
                              cart |-> <<>>, purchased |-> <<>>]
                        ELSE tbl[u]]]

\* lines 199-206, mode "login": the matching id, or False
login(tbl, emailInput, passwordInput) ==
    LET matched == {u \in Rows(tbl) : tbl[u].email = emailInput
                                      /\ tbl[u].password = passwordInput}
    IN IF matched = {} THEN False ELSE CHOOSE u \in matched : TRUE

\* add_to_cart that looks at the cart only
add_to_cart_cartOnly(tbl, userID, courseID) ==
    LET cartCourseIDs == tbl[userID].cart
    IN IF ~In(courseID, cartCourseIDs)
       THEN [tbl EXCEPT ![userID].cart = Append(cartCourseIDs, courseID)]
       ELSE tbl

\* lines 290-304, mode "add_to_cart"
add_to_cart(tbl, userID, courseID) ==
    LET cartCourseIDs == tbl[userID].cart
        purchasedCourseIDs == tbl[userID].purchased
    IN IF ~In(courseID, cartCourseIDs) /\ ~In(courseID, purchasedCourseIDs)
       THEN [tbl EXCEPT ![userID].cart = Append(cartCourseIDs, courseID)]
       ELSE tbl

\* lines 306-316, mode "remove_from_cart"
remove_from_cart(tbl, userID, courseID) ==
    LET cartCourseIDs == tbl[userID].cart
    IN IF In(courseID, cartCourseIDs)
       THEN [tbl EXCEPT ![userID].cart = RemoveFirst(cartCourseIDs, courseID)]
       ELSE tbl

\* lines 328-331: the for loop over the cart
RECURSIVE AppendNew(_, _)
AppendNew(purchasedCourseIDs, cartCourseIDs) ==
    IF cartCourseIDs = <<>> THEN purchasedCourseIDs
    ELSE LET courseID == Head(cartCourseIDs)
         IN AppendNew(IF ~In(courseID, purchasedCourseIDs)
                         THEN Append(purchasedCourseIDs, courseID)
                         ELSE purchasedCourseIDs,
                      Tail(cartCourseIDs))

\* purchase_courses that stores the cart as the purchased list
purchase_courses_cartOnly(tbl, userID) ==
    [tbl EXCEPT ![userID].purchased = tbl[userID].cart,
                ![userID].cart = <<>>]

\* lines 318-339, mode "purchase_courses"
purchase_courses(tbl, userID) ==
    [tbl EXCEPT ![userID].purchased = AppendNew(tbl[userID].purchased, tbl[userID].cart),
                ![userID].cart = <<>>]

\* The keyword arguments of mode "edit"; None is an argument not given.
NoKw == [username |-> None, email |-> None, oldPassword |-> None, password |-> None,
         profileImagePath |-> None, newAccType |-> None, cardName |-> None]

\* edit without the test of line 254
edit_noReuseCheck(tbl, userID, kw) ==
    LET row == tbl[userID]
        unameTaken == kw.username # None /\ \E u \in Rows(tbl) : tbl[u].username = kw.username
        emailTaken == kw.email # None /\ \E u \in Rows(tbl) : tbl[u].email = kw.email
        clauses == (IF kw.username # None THEN <<"username">> ELSE <<>>)
                   \o (IF kw.email # None THEN <<"email">> ELSE <<>>)
                   \o (IF kw.password # None THEN <<"password">> ELSE <<>>)
                   \o (IF kw.profileImagePath # None THEN <<"profile_image">> ELSE <<>>)
                   \o (IF kw.newAccType # None THEN <<"role">> ELSE <<>>)
                   \o (IF kw.cardName # None THEN <<"card">> ELSE <<>>)
        updated == CASE clauses = <<"username">> -> [row EXCEPT !.username = kw.username]
                     [] clauses = <<"email">> -> [row EXCEPT !.email = kw.email]
                     [] clauses = <<"password">> -> [row EXCEPT !.password = kw.password]
                     [] clauses = <<"profile_image">> ->
                            [row EXCEPT !.profile_image = kw.profileImagePath]
                     [] clauses = <<"role">> -> [row EXCEPT !.role = "Teacher"]
                     [] clauses = <<"card">> -> [row EXCEPT !.card = kw.cardName]
                     [] OTHER -> row
    IN IF unameTaken THEN [ret |-> False, tbl |-> tbl]
       ELSE IF emailTaken THEN [ret |-> False, tbl |-> tbl]
       ELSE IF kw.password # None /\ row.password # kw.oldPassword
            THEN [ret |-> "Password does not match previous password!", tbl |-> tbl]
       ELSE IF Len(clauses) # 1 THEN [ret |-> "OperationalError", tbl |-> tbl]
       ELSE [ret |-> None, tbl |-> [tbl EXCEPT ![userID] = updated]]

\* lines 216-273, mode "edit": [ret, tbl]. The SET clauses are joined without
\* commas, so the statement is valid SQL only when exactly one clause was
\* added; otherwise cur.execute raises OperationalError and nothing changes.
edit(tbl, userID, kw) ==
    LET row == tbl[userID]
        unameTaken == kw.username # None /\ \E u \in Rows(tbl) : tbl[u].username = kw.username
        emailTaken == kw.email # None /\ \E u \in Rows(tbl) : tbl[u].email = kw.email
        clauses == (IF kw.username # None THEN <<"username">> ELSE <<>>)
                   \o (IF kw.email # None THEN <<"email">> ELSE <<>>)
                   \o (IF kw.password # None THEN <<"password">> ELSE <<>>)
                   \o (IF kw.profileImagePath # None THEN <<"profile_image">> ELSE <<>>)
                   \o (IF kw.newAccType # None THEN <<"role">> ELSE <<>>)
                   \o (IF kw.cardName # None THEN <<"card">> ELSE <<>>)
        updated == CASE clauses = <<"username">> -> [row EXCEPT !.username = kw.username]
                     [] clauses = <<"email">> -> [row EXCEPT !.email = kw.email]
                     [] clauses = <<"password">> -> [row EXCEPT !.password = kw.password]
                     [] clauses = <<"profile_image">> ->
                            [row EXCEPT !.profile_image = kw.profileImagePath]
                     [] clauses = <<"role">> -> [row EXCEPT !.role = "Teacher"]
                     [] clauses = <<"card">> -> [row EXCEPT !.card = kw.cardName]
                     [] OTHER -> row
    IN IF unameTaken THEN [ret |-> False, tbl |-> tbl]
       ELSE IF emailTaken THEN [ret |-> False, tbl |-> tbl]
       ELSE IF kw.password # None /\ row.password # kw.oldPassword
            THEN [ret |-> "Password does not match previous password!", tbl |-> tbl]
       ELSE IF kw.password # None /\ row.password = kw.password
            THEN [ret |-> "Cannot Reuse previous password!", tbl |-> tbl]
       ELSE IF Len(clauses) # 1 THEN [ret |-> "OperationalError", tbl |-> tbl]
       ELSE [ret |-> None, tbl |-> [tbl EXCEPT ![userID] = updated]]

\* ------------------------------------------------------------------------
\* The routes (__init__.py)
\* ------------------------------------------------------------------------
InitDb ==
    /\ users = <<>>
    /\ courses = <<>>
    /\ session = None
    /\ resp = <<"none", "none">>

\* lines 113-143, a valid POST to /signup. generate_id() gives an id no row has.
Signup(form) ==
    IF session # None
    THEN resp' = <<"signup", "redirect home">> /\ UNCHANGED <<users, courses, session>>
    ELSE \E newID \in UserIDs \ Rows(users) :
         LET r == insert(users, newID, form) IN
         /\ users' = r.tbl
         /\ IF r.ret # None
            THEN session' = r.ret /\ resp' = <<"signup", "redirect home">>
            ELSE UNCHANGED session /\ resp' = <<"signup", "render signup">>
         /\ UNCHANGED courses

\* lines 86-111, a valid POST to /login
Login(emailInput, passwordInput) ==
    IF session # None
    THEN resp' = <<"login", "redirect home">> /\ UNCHANGED <<users, courses, session>>
    ELSE LET successfulLogin == login(users, emailInput, passwordInput) IN
         /\ IF successfulLogin # False
            THEN session' = successfulLogin /\ resp' = <<"login", "redirect home">>
            ELSE UNCHANGED session /\ resp' = <<"login", "render login">>
         /\ UNCHANGED <<users, courses>>

\* lines 145-152
Logout ==
    /\ IF session = None
       THEN resp' = <<"logout", "redirect login">> /\ UNCHANGED session
       ELSE session' = None /\ resp' = <<"logout", "redirect home">>
    /\ UNCHANGED <<users, courses>>

\* lines 518-524
addToCart(courseID) ==
    /\ IF session # None
       THEN users' = add_to_cart(users, session, courseID)
            /\ resp' = <<"add_to_cart", "redirect cart">>
       ELSE UNCHANGED users /\ resp' = <<"add_to_cart", "redirect login">>
    /\ UNCHANGED <<courses, session>>

\* lines 526-535 and 563-564, a POST to /shopping_cart
cart(courseID) ==
    /\ IF session # None
       THEN users' = remove_from_cart(users, session, courseID)
            /\ resp' = <<"shopping_cart", "redirect cart">>
       ELSE UNCHANGED users /\ resp' = <<"shopping_cart", "redirect login">>
    /\ UNCHANGED <<courses, session>>

\* lines 566-622. The call of purchase_courses at line 585 is commented out.
checkout(method, cardSave, cardName) ==
    /\ IF session = None
       THEN UNCHANGED users /\ resp' = <<"checkout", "redirect login">>
       ELSE IF method = "POST"
       THEN IF cardSave # None
            THEN LET r == edit(users, session, [NoKw EXCEPT !.cardName = cardName]) IN
                 /\ users' = r.tbl
                 /\ resp' = IF r.ret = "OperationalError"
                            THEN <<"checkout", "error 500">>
                            ELSE <<"checkout", "redirect purchaseHistory">>
            ELSE UNCHANGED users /\ resp' = <<"checkout", "redirect purchaseHistory">>
       ELSE UNCHANGED users /\ resp' = <<"checkout", "render checkout">>
    /\ UNCHANGED <<courses, session>>

\* sql_operation(table="user", mode="purchase_courses", userID=...) on its own
PurchaseCourses(userID) ==
    /\ userID \in Rows(users)
    /\ users' = purchase_courses(users, userID)
    /\ resp' = <<"purchase_courses", "None">>
    /\ UNCHANGED <<courses, session>>

NextCart ==
    \/ \E form \in SignupForms : Signup(form) /\ UNCHANGED <<searchVars, pagVars, pwdVars, kmsVars>>
    \/ \E form \in SignupForms :
          Login(form.email, form.password) /\ UNCHANGED <<searchVars, pagVars, pwdVars, kmsVars>>
    \/ Logout /\ UNCHANGED <<searchVars, pagVars, pwdVars, kmsVars>>
    \/ \E c \in CourseIDs : addToCart(c) /\ UNCHANGED <<searchVars, pagVars, pwdVars, kmsVars>>
    \/ \E c \in CourseIDs : cart(c) /\ UNCHANGED <<searchVars, pagVars, pwdVars, kmsVars>>
    \/ \E method \in {"GET", "POST"}, cardSave \in {None, "on"}, cardName \in {None, "name"} :
          checkout(method, cardSave, cardName) /\ UNCHANGED <<searchVars, pagVars, pwdVars, kmsVars>>
    \/ \E u \in UserIDs : PurchaseCourses(u) /\ UNCHANGED <<searchVars, pagVars, pwdVars, kmsVars>>

\* lines 397-412, course table, mode "insert": a new row for the teacher id given
course_insert(tbl, teacherId) == Append(tbl, [teacher_id |-> teacherId])

\* lines 319-329
changeAccountType(method, field) ==
    /\ IF session = None
       THEN UNCHANGED users /\ resp' = <<"change_account_type", "error 500">>
       ELSE IF method = "POST" /\ field = "changeToTeacher"
       THEN LET r == edit(users, session, [NoKw EXCEPT !.newAccType = True]) IN
            users' = r.tbl /\ resp' = <<"change_account_type", "redirect userProfile">>
       ELSE UNCHANGED users /\ resp' = <<"change_account_type", "redirect userProfile">>
    /\ UNCHANGED <<courses, session>>

\* lines 357-400. accType is read at line 362 and only handed to the template.
createCourse(method, videoFilename) ==
    /\ IF session = None
       THEN UNCHANGED courses /\ resp' = <<"create_course", "error 500">>
       ELSE IF method = "POST"
       THEN IF videoFilename = ""
            THEN UNCHANGED courses /\ resp' = <<"create_course", "redirect createCourse">>
            ELSE /\ Len(courses) < MaxCourseRows
                 /\ courses' = course_insert(courses, session)
                 /\ resp' = <<"create_course", "redirect home">>
       ELSE UNCHANGED courses /\ resp' = <<"create_course", "render create_course">>
    /\ UNCHANGED <<users, session>>

NextPublish ==
    \/ \E form \in SignupForms : Signup(form) /\ UNCHANGED <<searchVars, pagVars, pwdVars, kmsVars>>
    \/ \E form \in SignupForms :
          Login(form.email, form.password) /\ UNCHANGED <<searchVars, pagVars, pwdVars, kmsVars>>
    \/ Logout /\ UNCHANGED <<searchVars, pagVars, pwdVars, kmsVars>>
    \/ \E method \in {"GET", "POST"}, field \in {"changeToTeacher", "other"} :
          changeAccountType(method, field) /\ UNCHANGED <<searchVars, pagVars, pwdVars, kmsVars>>
    \/ \E method \in {"GET", "POST"}, videoFilename \in {"", "lesson.mp4"} :
          createCourse(method, videoFilename) /\ UNCHANGED <<searchVars, pagVars, pwdVars, kmsVars>>

\* ------------------------------------------------------------------------
\* The account routes (__init__.py)
\* ------------------------------------------------------------------------
Methods == {"GET", "POST"}
UsernameInputs == {"alice", "dave"}
EmailInputs == {"alice@x", "dave@x"}
PasswordInputs == {"pw1", "pw2"}

\* Python's "not value" for what edit returns
Falsy(ret) == ret \in {None, False}

\* lines 245-266. valid is the outcome of the form's validate().
updateUsername(method, valid, updatedUsername) ==
    /\ IF session = None
       THEN UNCHANGED users /\ resp' = <<"change_username", "hello world!">>
       ELSE IF method = "POST" /\ valid
       THEN LET changed == edit(users, session, [NoKw EXCEPT !.username = updatedUsername]) IN
            /\ users' = changed.tbl
            /\ resp' = IF changed.ret = "OperationalError"
                       THEN <<"change_username", "error 500">>
                       ELSE IF Falsy(changed.ret)
                       THEN <<"change_username", "Sorry, Username has already been taken!">>
                       ELSE <<"change_username", "redirect userProfile">>
       ELSE UNCHANGED users /\ resp' = <<"change_username", "render change_username">>
    /\ UNCHANGED <<courses, session>>

\* lines 268-290. Without a session the view returns nothing, which is an error.
updateEmail(method, valid, updatedEmail) ==
    /\ IF session = None
       THEN UNCHANGED users /\ resp' = <<"change_email", "error 500">>
       ELSE IF method = "POST" /\ valid
       THEN LET changed == edit(users, session, [NoKw EXCEPT !.email = updatedEmail]) IN
            /\ users' = changed.tbl
            /\ resp' = IF changed.ret = "OperationalError"
                       THEN <<"change_email", "error 500">>
                       ELSE IF Falsy(changed.ret)
                       THEN <<"change_email", "Sorry, Email is been used by another user!">>
                       ELSE <<"change_email", "redirect userProfile">>
       ELSE UNCHANGED users /\ resp' = <<"change_email", "render change_email">>
    /\ UNCHANGED <<courses, session>>

\* lines 292-317. The message edit returns is flashed.
updatePassword(method, valid, currentPassword, updatedPassword, confirmPassword) ==
    /\ IF session = None
       THEN UNCHANGED users /\ resp' = <<"change_password", "error 500">>
       ELSE IF method = "POST" /\ valid
       THEN IF updatedPassword # confirmPassword
            THEN UNCHANGED users /\ resp' = <<"change_password", "Passwords Do Not Match">>
            ELSE LET changed == edit(users, session,
                                     [NoKw EXCEPT !.password = updatedPassword,
                                                  !.oldPassword = currentPassword]) IN
                 /\ users' = changed.tbl
                 /\ resp' = IF changed.ret = "OperationalError"
                            THEN <<"change_password", "error 500">>
                            ELSE IF Falsy(changed.ret)
                            THEN <<"change_password", "redirect userProfile">>
                            ELSE <<"change_password", changed.ret>>
       ELSE UNCHANGED users /\ resp' = <<"change_password", "render change_password">>
    /\ UNCHANGED <<courses, session>>

\* lines 331-355. A GET, like a request without a session, returns nothing.
uploadPic(method, hasFile) ==
    /\ IF session = None \/ method # "POST"
       THEN UNCHANGED users /\ resp' = <<"upload_profile_pic", "error 500">>
       ELSE IF ~hasFile
       THEN UNCHANGED users /\ resp' = <<"upload_profile_pic", "redirect userProfile">>
       ELSE LET r == edit(users, session, [NoKw EXCEPT !.profileImagePath = "pic",
                                                       !.newAccType = False]) IN
            /\ users' = r.tbl
            /\ resp' = IF r.ret = "OperationalError"
                       THEN <<"upload_profile_pic", "error 500">>
                       ELSE <<"upload_profile_pic", "redirect userProfile">>
    /\ UNCHANGED <<courses, session>>

\* sql_operation(table="user", mode="edit", userID=..., ...) on its own
EditCall(userID, kw) ==
    /\ userID \in Rows(users)
    /\ LET r == edit(users, userID, kw) IN
       users' = r.tbl /\ resp' = <<"edit", r.ret>>
    /\ UNCHANGED <<courses, session>>

RoleKws ==
    {[NoKw EXCEPT !.newAccType = b] : b \in {True, False}}
    \cup {[NoKw EXCEPT !.profileImagePath = "pic"],
          [NoKw EXCEPT !.profileImagePath = "pic", !.newAccType = False]}

PasswordKws ==
    {[NoKw EXCEPT !.oldPassword = o, !.password = n] :
        o \in PasswordInputs \cup {None}, n \in PasswordInputs}

NextAccount ==
    \/ \E form \in SignupForms : Signup(form) /\ UNCHANGED <<searchVars, pagVars, pwdVars, kmsVars>>
    \/ \E form \in SignupForms :
          Login(form.email, form.password) /\ UNCHANGED <<searchVars, pagVars, pwdVars, kmsVars>>
    \/ Logout /\ UNCHANGED <<searchVars, pagVars, pwdVars, kmsVars>>
    \/ \E method \in Methods, valid \in BOOLEAN, name \in UsernameInputs :
          updateUsername(method, valid, name) /\ UNCHANGED <<searchVars, pagVars, pwdVars, kmsVars>>
    \/ \E method \in Methods, valid \in BOOLEAN, address \in EmailInputs :
          updateEmail(method, valid, address) /\ UNCHANGED <<searchVars, pagVars, pwdVars, kmsVars>>

NextRole ==
    \/ \E form \in SignupForms : Signup(form) /\ UNCHANGED <<searchVars, pagVars, pwdVars, kmsVars>>
    \/ \E form \in SignupForms :
          Login(form.email, form.password) /\ UNCHANGED <<searchVars, pagVars, pwdVars, kmsVars>>
    \/ Logout /\ UNCHANGED <<searchVars, pagVars, pwdVars, kmsVars>>
    \/ \E method \in Methods, field \in {"changeToTeacher", "other"} :
          changeAccountType(method, field) /\ UNCHANGED <<searchVars, pagVars, pwdVars, kmsVars>>
    \/ \E method \in Methods, hasFile \in BOOLEAN :
          uploadPic(method, hasFile) /\ UNCHANGED <<searchVars, pagVars, pwdVars, kmsVars>>
    \/ \E u \in UserIDs, kw \in RoleKws :
          EditCall(u, kw) /\ UNCHANGED <<searchVars, pagVars, pwdVars, kmsVars>>

NextPassword ==
    \/ \E form \in SignupForms : Signup(form) /\ UNCHANGED <<searchVars, pagVars, pwdVars, kmsVars>>
    \/ \E form \in SignupForms :
          Login(form.email, form.password) /\ UNCHANGED <<searchVars, pagVars, pwdVars, kmsVars>>
    \/ Logout /\ UNCHANGED <<searchVars, pagVars, pwdVars, kmsVars>>
    \/ \E method \in Methods, valid \in BOOLEAN, cur \in PasswordInputs, new \in PasswordInputs,
          confirm \in PasswordInputs :
          updatePassword(method, valid, cur, new, confirm)
          /\ UNCHANGED <<searchVars, pagVars, pwdVars, kmsVars>>
    \/ \E u \in UserIDs, kw \in PasswordKws :
          EditCall(u, kw) /\ UNCHANGED <<searchVars, pagVars, pwdVars, kmsVars>>

\* ------------------------------------------------------------------------
\* Passwords (NormalFunctions.py)
\* ------------------------------------------------------------------------
\* A password is known by what the program asks of it: its SHA-1 hex digest
\* and whether each of CONSTANTS' regular expressions matches it.
NL == "\n"
Digest(x, y) == [k \in 1..HashLen |-> IF k % 2 = 1 THEN x ELSE y]
Digests == {Digest("a", "1"), Digest("2", "b")}
Passwords ==
    [sha1 : Digests, LENGTH : BOOLEAN, LOWERCASE : BOOLEAN, UPPERCASE : BOOLEAN,
     DIGIT : BOOLEAN, SPECIAL_CHAR : BOOLEAN, TWO_REPEAT_CHAR : BOOLEAN,
     ALLOWED_CHAR : BOOLEAN, STRICT_PASSWORD : BOOLEAN]

\* pwd_is_strong asking for more than three predicates
pwd_is_strong_moreThan(pw, strict) ==
    IF strict THEN pw.STRICT_PASSWORD
    ELSE LET strength == (IF pw.LENGTH THEN 1 ELSE 0)
                         + (IF pw.LOWERCASE THEN 1 ELSE 0)
                         + (IF pw.UPPERCASE THEN 1 ELSE 0)
                         + (IF pw.DIGIT THEN 1 ELSE 0)
                         + (IF pw.SPECIAL_CHAR THEN 1 ELSE 0)
                         + (IF pw.TWO_REPEAT_CHAR THEN 1 ELSE 0)
         IN IF ~pw.ALLOWED_CHAR THEN FALSE
            ELSE strength > MinStrength

\* lines 1076-1101
pwd_is_strong(pw, strict) ==
    IF strict THEN pw.STRICT_PASSWORD
    ELSE LET strength == (IF pw.LENGTH THEN 1 ELSE 0)
                         + (IF pw.LOWERCASE THEN 1 ELSE 0)
                         + (IF pw.UPPERCASE THEN 1 ELSE 0)
                         + (IF pw.DIGIT THEN 1 ELSE 0)
                         + (IF pw.SPECIAL_CHAR THEN 1 ELSE 0)
                         + (IF pw.TWO_REPEAT_CHAR THEN 1 ELSE 0)
         IN IF ~pw.ALLOWED_CHAR THEN FALSE
            ELSE strength >= MinStrength

InitStrong ==
    /\ qpc = "idle"
    /\ qpassword = None
    /\ qstrict = FALSE
    /\ qret = FALSE

StrongCall(pw, strict) ==
    /\ qpc = "idle"
    /\ qpassword' = pw
    /\ qstrict' = strict
    /\ qret' = pwd_is_strong(pw, strict)
    /\ qpc' = "returned"

NextStrong ==
    \E pw \in Passwords, strict \in BOOLEAN :
        StrongCall(pw, strict) /\ UNCHANGED <<searchVars, pagVars, dbVars, pwnedVars, kmsVars>>

\* str.upper() on the characters a digest has
UpperChar(c) ==
    CASE c = "a" -> "A" [] c = "b" -> "B" [] c = "c" -> "C"
      [] c = "d" -> "D" [] c = "e" -> "E" [] c = "f" -> "F" [] OTHER -> c
upper(str) == [k \in DOMAIN str |-> UpperChar(str[k])]

\* str.splitlines() of a text whose line breaks are "\n": the pieces between
\* the line breaks; a line break at the very end starts no further line
splitlines(text) ==
    LET breaks == {k \in DOMAIN text : text[k] = NL}
        n == Cardinality(breaks)
             + (IF text # <<>> /\ text[Len(text)] # NL THEN 1 ELSE 0)
        BreakAt(i) == IF i = 0 THEN 0
                      ELSE IF i > Cardinality(breaks) THEN Len(text) + 1
                      ELSE CHOOSE k \in breaks : Cardinality({j \in breaks : j <= k}) = i
    IN [i \in 1..n |-> SubSeq(text, BreakAt(i - 1) + 1, BreakAt(i) - 1)]

\* line 1149, result.split(":")[0]: the text before the first ":", or all of it
RECURSIVE split_first(_)
split_first(result) ==
    IF result = <<>> \/ Head(result) = ":" THEN <<>>
    ELSE <<Head(result)>> \o split_first(Tail(result))

\* the hash as hexdigest() gives it, never put in upper case
passwordHash_noUpper(pw) == pw.sha1

\* line 1119
passwordHash(pw) == upper(pw.sha1)

\* lines 1148-1152: the for loop over the lines
RECURSIVE found(_, _)
found(lines, suffix) ==
    IF lines = <<>> THEN FALSE
    ELSE IF split_first(Head(lines)) = suffix THEN TRUE
    ELSE found(Tail(lines), suffix)

\* The lines the range API may send for a password: its suffix with a count,
\* and lines that differ from it in case, length, or the place of the colon.
LinePool(pw) ==
    LET S == SubSeq(upper(pw.sha1), PrefixLen + 1, HashLen) IN
    { S \o <<":", "3">>,
      S,
      S \o <<":", "1", ":", "2">>,
      SubSeq(pw.sha1, PrefixLen + 1, HashLen) \o <<":", "3">>,
      SubSeq(upper(pw.sha1), PrefixLen, HashLen) \o <<":", "1">>,
      Tail(S) \o <<":", "5">>,
      <<":">> \o S,
      S \o <<"0", ":", "7">> }

RECURSIVE JoinLines(_)
JoinLines(lines) ==
    IF lines = <<>> THEN <<>>
    ELSE IF Len(lines) = 1 THEN Head(lines)
    ELSE Head(lines) \o <<NL>> \o JoinLines(Tail(lines))

Bodies(pw) == UNION {[1..n -> LinePool(pw)] : n \in 0..MaxLines}
PwnedInputs ==
    {pw \in Passwords : \A f \in {"LENGTH", "LOWERCASE", "UPPERCASE", "DIGIT",
                                  "SPECIAL_CHAR", "TWO_REPEAT_CHAR", "ALLOWED_CHAR"} :
                            pw[f] = pw.STRICT_PASSWORD}
StatusCodes == {200, 429, 503}

\* before a call: no password, no response
NoPassword ==
    [sha1 |-> <<>>, LENGTH |-> FALSE, LOWERCASE |-> FALSE, UPPERCASE |-> FALSE,
     DIGIT |-> FALSE, SPECIAL_CHAR |-> FALSE, TWO_REPEAT_CHAR |-> FALSE,
     ALLOWED_CHAR |-> FALSE, STRICT_PASSWORD |-> FALSE]
NoResponse == [status_code |-> 0, lines |-> <<>>, text |-> <<>>]

InitPwned ==
    /\ hpc = "idle"
    /\ password = NoPassword
    /\ hashPrefix = <<>>
    /\ hashSuffix = <<>>
    /\ sent = <<>>
    /\ statuses = <<>>
    /\ response = NoResponse
    /\ results = <<>>
    /\ hret = [type |-> "none", val |-> None]

\* lines 1119-1126: the hash, its prefix and suffix, the empty results
PwnedCall(pw) ==
    /\ hpc = "idle"
    /\ password' = pw
    /\ hashPrefix' = SubSeq(passwordHash(pw), 1, PrefixLen)
    /\ hashSuffix' = SubSeq(passwordHash(pw), PrefixLen + 1, Len(passwordHash(pw)))
    /\ results' = <<>>
    /\ hpc' = "request"
    /\ UNCHANGED <<sent, statuses, response, hret>>

\* PwnedRespond that gives up on a 429 as on any other error
PwnedRespond_noRetry(status, lines) ==
    /\ hpc = "request"
    /\ sent' = Append(sent, hashPrefix)
    /\ statuses' = Append(statuses, status)
    /\ response' = [status_code |-> status, lines |-> lines, text |-> JoinLines(lines)]
    /\ IF status = 200
       THEN /\ results' = splitlines(JoinLines(lines))
            /\ hret' = [type |-> "bool", val |-> found(results', hashSuffix)]
            /\ hpc' = "returned"
       ELSE /\ hret' = [type |-> "tuple", val |-> <<pwd_is_strong(password, TRUE), "strict">>]
            /\ hpc' = "returned"
            /\ UNCHANGED results
    /\ UNCHANGED <<password, hashPrefix, hashSuffix>>

\* PwnedRespond that retries on every status but 200
PwnedRespond_retryAll(status, lines) ==
    /\ hpc = "request"
    /\ sent' = Append(sent, hashPrefix)
    /\ statuses' = Append(statuses, status)
    /\ response' = [status_code |-> status, lines |-> lines, text |-> JoinLines(lines)]
    /\ IF status = 200
       THEN /\ results' = splitlines(JoinLines(lines))
            /\ hret' = [type |-> "bool", val |-> found(results', hashSuffix)]
            /\ hpc' = "returned"
       ELSE /\ hpc' = "sleep"
            /\ UNCHANGED <<results, hret>>
    /\ UNCHANGED <<password, hashPrefix, hashSuffix>>

\* lines 1127-1152: one pass of the while loop from req.get on. The API
\* answers with a status and, on 200, a body; on 200 the for loop over the
\* lines follows and the function returns.
PwnedRespond(status, lines) ==
    /\ hpc = "request"
    /\ sent' = Append(sent, hashPrefix)
    /\ statuses' = Append(statuses, status)
    /\ response' = [status_code |-> status, lines |-> lines, text |-> JoinLines(lines)]
    /\ IF status = 200
       THEN /\ results' = splitlines(JoinLines(lines))
            /\ hret' = [type |-> "bool", val |-> found(results', hashSuffix)]
            /\ hpc' = "returned"
       ELSE IF status = 429
       THEN /\ hpc' = "sleep"
            /\ UNCHANGED <<results, hret>>
       ELSE /\ hret' = [type |-> "tuple", val |-> <<pwd_is_strong(password, TRUE), "strict">>]
            /\ hpc' = "returned"
            /\ UNCHANGED results
    /\ UNCHANGED <<password, hashPrefix, hashSuffix>>

\* line 1135: sleep(0.5), then the loop starts over
PwnedSleep ==
    /\ hpc = "sleep"
    /\ hpc' = "request"
    /\ UNCHANGED <<password, hashPrefix, hashSuffix, sent, statuses, response, results, hret>>

\* The API answers 429 to at most MaxRetries requests of a call.
ApiMayAnswer(status) ==
    status = 429 => Len(statuses) < MaxRetries

NextPwned ==
    \/ \E pw \in PwnedInputs :
          PwnedCall(pw) /\ UNCHANGED <<searchVars, pagVars, dbVars, strongVars, kmsVars>>
    \/ \E status \in StatusCodes :
          /\ hpc = "request"
          /\ ApiMayAnswer(status)
          /\ \E lines \in (IF status = 200 THEN Bodies(password) ELSE {<<>>}) :
                PwnedRespond(status, lines)
          /\ UNCHANGED <<searchVars, pagVars, dbVars, strongVars, kmsVars>>
    \/ PwnedSleep /\ UNCHANGED <<searchVars, pagVars, dbVars, strongVars, kmsVars>>

\* ------------------------------------------------------------------------
\* The Cloud KMS helpers
\* ------------------------------------------------------------------------
\* A Python value is [type, data]: data is a sequence of byte values for
\* bytes and bytearray, a sequence of characters for str, empty for None.
Value(t, d) == [type |-> t, data |-> d]
NoneValue == Value("NoneType", <<>>)

SeqsUpTo(S, n) == UNION {[1..k -> S] : k \in 0..n}

\* str.encode("utf-8") over the characters "a" (one byte) and "e'" (two bytes)
RECURSIVE encode_utf8(_)
encode_utf8(chars) ==
    IF chars = <<>> THEN <<>>
    ELSE (IF Head(chars) = "a" THEN <<97>> ELSE <<195, 169>>) \o encode_utf8(Tail(chars))

\* six.ensure_binary: a str is encoded, bytes are kept
ensure_binary(v) == IF v.type = "str" THEN encode_utf8(v.data) ELSE v.data

RECURSIVE SumTerms(_)
SumTerms(T) ==
    IF T = {} THEN 0
    ELSE LET t == CHOOSE x \in T : TRUE
         IN t[1] * t[2] + SumTerms(T \ {t})

\* lines 638-649: a checksum of the bytes of data, as a non-negative integer.
\* The CRC32C polynomial is stood in for by the length plus the sum of the
\* bytes, kept to 16 bits (the model checker's integers hold 31).
crc32c(v) ==
    LET data == ensure_binary(v)
        terms == {<<b, Cardinality({k \in DOMAIN data : data[k] = b})>> : b \in SeqRange(data)}
    IN (Len(data) + SumTerms(terms)) % (2 ^ 16)

\* The outcome of a call: the value returned or the error raised, the
\* requests sent to the KMS API and the log entries written, in order.
Return(v, reqs, log) ==
    [outcome |-> "return", val |-> v, error |-> None, requests |-> reqs, log |-> log]
Raise(e, reqs, log) ==
    [outcome |-> "raise", val |-> NoneValue, error |-> e, requests |-> reqs, log |-> log]

\* What the KMS API may do with an encrypt request: raise, or answer with
\* a response whose fields may have been corrupted in transit.
CipherPool == SeqsUpTo({1, 2}, MaxDataLen)
EncryptAnswers ==
    {[kind |-> "ServiceUnavailable", verified_plaintext_crc32c |-> FALSE,
      ciphertext |-> <<>>, ciphertext_crc32c |-> 0]}
    \cup [kind : {"ok"}, verified_plaintext_crc32c : BOOLEAN, ciphertext : CipherPool,
          ciphertext_crc32c : {crc32c(Value("bytes", c)) : c \in CipherPool}]

\* symmetric_encrypt without the test of line 683
symmetric_encrypt_noCipherCheck(plaintext, keyID, answer) ==
    LET pt == IF plaintext.type = "str" THEN Value("bytes", encode_utf8(plaintext.data))
              ELSE plaintext
        request == [op |-> "encrypt", name |-> keyID, data |-> pt.data,
                    crc32c |-> crc32c(pt)]
    IN IF answer.kind # "ok" THEN Raise(answer.kind, <<request>>, <<>>)
       ELSE IF ~answer.verified_plaintext_crc32c
            THEN Raise("CRC32ChecksumError", <<request>>, <<>>)
       ELSE Return(Value("bytes", answer.ciphertext), <<request>>, <<>>)

\* lines 651-687
symmetric_encrypt(plaintext, keyID, answer) ==
    LET pt == IF plaintext.type = "str" THEN Value("bytes", encode_utf8(plaintext.data))
              ELSE plaintext
        plaintextCRC32C == crc32c(pt)
        request == [op |-> "encrypt", name |-> keyID, data |-> pt.data,
                    crc32c |-> plaintextCRC32C]
    IN IF answer.kind # "ok" THEN Raise(answer.kind, <<request>>, <<>>)
       ELSE IF ~answer.verified_plaintext_crc32c
            THEN Raise("CRC32ChecksumError", <<request>>, <<>>)
       ELSE IF answer.ciphertext_crc32c # crc32c(Value("bytes", answer.ciphertext))
            THEN Raise("CRC32ChecksumError", <<request>>, <<>>)
       ELSE Return(Value("bytes", answer.ciphertext), <<request>>, <<>>)

\* bytes.decode("utf-8") over the bytes 97 ("a"), 195 169 ("e'") and bytes
\* that are no UTF-8 text (255, a lone 195 or 169): [ok, chars]
decode_utf8(b) ==
    LET conts == {p \in DOMAIN b : b[p] = 169}
        valid == \A p \in DOMAIN b :
                    /\ b[p] \in {97, 195, 169}
                    /\ b[p] = 195 => (p + 1 \in DOMAIN b /\ b[p + 1] = 169)
                    /\ b[p] = 169 => (p - 1 \in DOMAIN b /\ b[p - 1] = 195)
        n == Len(b) - Cardinality(conts)
        \* the byte at which character i starts: i plus the continuation bytes before it
        start(i) == CHOOSE p \in i..(i + Cardinality(conts)) :
                        /\ p \in DOMAIN b
                        /\ p \notin conts
                        /\ p - Cardinality({j \in conts : j < p}) = i
    IN IF valid
       THEN [ok |-> TRUE, chars |-> [i \in 1..n |-> IF b[start(i)] = 97 THEN "a" ELSE "e'"]]
       ELSE [ok |-> FALSE, chars |-> <<>>]

\* What the KMS API may do with a decrypt request: refuse the ciphertext,
\* fail otherwise, or answer with a plaintext and a checksum, either of which
\* may have been corrupted in transit.
DecryptAnswersOver(plaintexts) ==
    {[kind |-> k, plaintext |-> <<>>, plaintext_crc32c |-> 0] :
        k \in {"InvalidArgument", "ServiceUnavailable"}}
    \cup UNION {[kind : {"ok"}, plaintext : {pt},
                 plaintext_crc32c : {crc32c(Value("bytes", pt)),
                                     (crc32c(Value("bytes", pt)) + 1) % (2 ^ 16)}] :
                pt \in plaintexts}

\* symmetric_decrypt without the test of line 717
symmetric_decrypt_noTypeCheck(ciphertext, keyID, decode, answer) ==
    LET request == [op |-> "decrypt", name |-> keyID, data |-> ensure_binary(ciphertext),
                    crc32c |-> crc32c(ciphertext)]
        decoded == decode_utf8(answer.plaintext)
    IN IF answer.kind = "InvalidArgument"
       THEN Raise("DecryptionError", <<request>>, <<[severity |-> "INFO"]>>)
       ELSE IF answer.kind # "ok" THEN Raise(answer.kind, <<request>>, <<>>)
       ELSE IF answer.plaintext_crc32c # crc32c(Value("bytes", answer.plaintext))
            THEN Raise("CRC32ChecksumError", <<request>>, <<>>)
       ELSE IF ~decode THEN Return(Value("bytes", answer.plaintext), <<request>>, <<>>)
       ELSE IF decoded.ok THEN Return(Value("str", decoded.chars), <<request>>, <<>>)
       ELSE Raise("UnicodeDecodeError", <<request>>, <<>>)

\* lines 689-751
symmetric_decrypt(ciphertext, keyID, decode, answer) ==
    LET ct == IF ciphertext.type = "bytearray" THEN Value("bytes", ciphertext.data)
              ELSE ciphertext
        cipherTextCRC32C == crc32c(ct)
        request == [op |-> "decrypt", name |-> keyID, data |-> ct.data,
                    crc32c |-> cipherTextCRC32C]
        decoded == decode_utf8(answer.plaintext)
    IN IF ct.type # "bytes" THEN Raise("CiphertextIsNotBytesError", <<>>, <<>>)
       ELSE IF answer.kind = "InvalidArgument"
            THEN Raise("DecryptionError", <<request>>, <<[severity |-> "INFO"]>>)
       ELSE IF answer.kind # "ok" THEN Raise(answer.kind, <<request>>, <<>>)
       ELSE IF answer.plaintext_crc32c # crc32c(Value("bytes", answer.plaintext))
            THEN Raise("CRC32ChecksumError", <<request>>, <<>>)
       ELSE IF ~decode THEN Return(Value("bytes", answer.plaintext), <<request>>, <<>>)
       ELSE IF decoded.ok THEN Return(Value("str", decoded.chars), <<request>>, <<>>)
       ELSE Raise("UnicodeDecodeError", <<request>>, <<>>)

\* The value of a character in the URL-safe base64 alphabet, -1 outside it
B64Value(c) ==
    CASE c = "A" -> 0
      [] c = "Q" -> 16
      [] c = "U" -> 20
      [] c = "-" -> 62
      [] c = "_" -> 63
      [] OTHER -> -1

\* binascii.a2b_base64 as base64.b64decode calls it (no validation): other
\* characters are skipped, "=" ends the data once it completes a quantum of
\* at least two characters, and data that stops inside a quantum is an error.
RECURSIVE B64Scan(_, _, _, _, _)
B64Scan(chars, quad, pads, left, out) ==
    IF chars = <<>>
    THEN (IF quad = 0 THEN [error |-> None, data |-> out]
          ELSE [error |-> "BinasciiError", data |-> <<>>])
    ELSE LET c == Head(chars)
             v == B64Value(c)
         IN IF c = "="
            THEN (IF quad >= 2 /\ quad + pads + 1 >= 4
                  THEN [error |-> None, data |-> out]
                  ELSE B64Scan(Tail(chars), quad, pads + 1, left, out))
            ELSE IF v = -1 THEN B64Scan(Tail(chars), quad, pads, left, out)
            ELSE IF quad = 0 THEN B64Scan(Tail(chars), 1, 0, v, out)
            ELSE IF quad = 1
                 THEN B64Scan(Tail(chars), 2, 0, v % 16, Append(out, left * 4 + v \div 16))
            ELSE IF quad = 2
                 THEN B64Scan(Tail(chars), 3, 0, v % 4, Append(out, left * 16 + v \div 4))
            ELSE B64Scan(Tail(chars), 0, 0, 0, Append(out, left * 64 + v))

\* base64.urlsafe_b64decode of a str or of None: [error, data]
urlsafe_b64decode(v) ==
    IF v.type # "str" THEN [error |-> "TypeError", data |-> <<>>]
    ELSE IF "e'" \in SeqRange(v.data) THEN [error |-> "ValueError", data |-> <<>>]
    ELSE B64Scan(v.data, 0, 0, 0, <<>>)

\* decode_and_decrypt_token without the length test of line 85
decode_and_decrypt_token_anyLength(tokenInput, answer) ==
    LET decoded == urlsafe_b64decode(tokenInput)
        r == symmetric_decrypt(Value("bytes", decoded.data), TOKEN_ENCRYPTION_KEY_ID, TRUE, answer)
    IN IF decoded.error # None THEN Return(NoneValue, <<>>, <<>>)
       ELSE IF r.outcome = "return" THEN Return(r.val, r.requests, r.log)
       ELSE IF r.error \in {"DecryptionError", "UnicodeDecodeError"}
            THEN Return(NoneValue, r.requests, r.log)
       ELSE Return(NoneValue, r.requests, Append(r.log, [severity |-> "NOTICE"]))

\* lines 67-94.  BinasciiError and UnicodeDecodeError are ValueErrors; the
\* other errors of symmetric_decrypt reach the handler of line 89.
decode_and_decrypt_token(tokenInput, answer) ==
    LET decoded == urlsafe_b64decode(tokenInput)
        r == symmetric_decrypt(Value("bytes", decoded.data), TOKEN_ENCRYPTION_KEY_ID, TRUE, answer)
    IN IF decoded.error # None THEN Return(NoneValue, <<>>, <<>>)
       ELSE IF r.outcome = "return"
            THEN Return(IF Len(r.val.data) = TokenLen THEN r.val ELSE NoneValue,
                        r.requests, r.log)
       ELSE IF r.error \in {"DecryptionError", "UnicodeDecodeError"}
            THEN Return(NoneValue, r.requests, r.log)
       ELSE Return(NoneValue, r.requests, Append(r.log, [severity |-> "NOTICE"]))

InitKms ==
    /\ kpc = "idle"
    /\ kfn = None
    /\ karg = NoneValue
    /\ kdecode = TRUE
    /\ kanswer = None
    /\ kret = [outcome |-> "none", val |-> NoneValue, error |-> None,
               requests |-> <<>>, log |-> <<>>]

EncryptInputs ==
    {Value("str", d) : d \in SeqsUpTo({"a", "e'"}, MaxDataLen)}
    \cup {Value("bytes", d) : d \in SeqsUpTo({97, 195}, MaxDataLen)}

\* A call of symmetric_encrypt, with the answer the KMS API gives to it.
EncryptCall(plaintext, answer) ==
    /\ kpc = "idle"
    /\ kpc' = "returned"
    /\ kfn' = "symmetric_encrypt"
    /\ karg' = plaintext
    /\ kanswer' = answer
    /\ kret' = symmetric_encrypt(plaintext, "key", answer)
    /\ UNCHANGED kdecode

NextEncrypt ==
    \E plaintext \in EncryptInputs, answer \in EncryptAnswers :
        EncryptCall(plaintext, answer) /\ UNCHANGED <<searchVars, pagVars, dbVars, pwdVars>>

DecryptInputs ==
    {Value("bytes", d) : d \in CipherPool}
    \cup {Value("bytearray", d) : d \in SeqsUpTo({1}, MaxDataLen)}
    \cup {Value("str", d) : d \in SeqsUpTo({"a"}, MaxDataLen)}
    \cup {NoneValue}

PlainPool == SeqsUpTo({97, 195, 169, 255}, MaxDataLen)

\* A call of symmetric_decrypt, with the answer the KMS API would give to it.
DecryptCall(ciphertext, decode, answer) ==
    /\ kpc = "idle"
    /\ kpc' = "returned"
    /\ kfn' = "symmetric_decrypt"
    /\ karg' = ciphertext
    /\ kdecode' = decode
    /\ kanswer' = answer
    /\ kret' = symmetric_decrypt(ciphertext, "key", decode, answer)

NextDecrypt ==
    \E ciphertext \in DecryptInputs, decode \in BOOLEAN, answer \in DecryptAnswersOver(PlainPool) :
        DecryptCall(ciphertext, decode, answer) /\ UNCHANGED <<searchVars, pagVars, dbVars, pwdVars>>

TokenInputs ==
    {Value("str", d) : d \in SeqsUpTo({"Q", "-", "=", "!"}, MaxTokenChars)}
    \cup {Value("str", <<"e'">>), NoneValue}

\* n bytes "a"
As(n) == [i \in 1..n |-> 97]

\* The plaintexts the token key may decrypt to: one character short, exact
\* and one long, with and without a two-byte character, and no UTF-8 text.
TokenPlainPool ==
    {<<>>, As(TokenLen - 1), As(TokenLen), As(TokenLen + 1),
     <<195, 169>> \o As(TokenLen - 2), <<195, 169>> \o As(TokenLen - 1),
     <<255>> \o As(TokenLen - 1)}

\* A call of decode_and_decrypt_token, with the answer the KMS API would give.
TokenCall(tokenInput, answer) ==
    /\ kpc = "idle"
    /\ kpc' = "returned"
    /\ kfn' = "decode_and_decrypt_token"
    /\ karg' = tokenInput
    /\ kdecode' = TRUE
    /\ kanswer' = answer
    /\ kret' = decode_and_decrypt_token(tokenInput, answer)

NextToken ==
    \E tokenInput \in TokenInputs, answer \in DecryptAnswersOver(TokenPlainPool) :
        TokenCall(tokenInput, answer) /\ UNCHANGED <<searchVars, pagVars, dbVars, pwdVars>>

\* ------------------------------------------------------------------------
\* Specifications
\* ------------------------------------------------------------------------
Init == InitSearch /\ InitPag /\ InitDb /\ InitStrong /\ InitPwned /\ InitKms

Next ==
    \/ NextSearch \/ NextPag \/ NextCart \/ NextPublish \/ NextStrong \/ NextPwned
    \/ NextEncrypt \/ NextDecrypt \/ NextToken
    \/ NextAccount \/ NextRole \/ NextPassword

Spec == Init /\ [][Next]_vars
SpecSearch == Init /\ [][NextSearch]_vars
SpecPagination == Init /\ [][NextPag]_vars
SpecCart == Init /\ [][NextCart]_vars
SpecPublish == Init /\ [][NextPublish]_vars
SpecAccount == Init /\ [][NextAccount]_vars
SpecRole == Init /\ [][NextRole]_vars
SpecPassword == Init /\ [][NextPassword]_vars
SpecStrong == Init /\ [][NextStrong]_vars
SpecEncrypt == Init /\ [][NextEncrypt]_vars
SpecDecrypt == Init /\ [][NextDecrypt]_vars
SpecToken == Init /\ [][NextToken]_vars
\* A call that has started keeps running, and every request is answered.
SpecPwned == Init /\ [][NextPwned]_vars /\ WF_vars(NextPwned)

\* ------------------------------------------------------------------------
\* Claims about /search
\* ------------------------------------------------------------------------
RECURSIVE ConcatPages(_, _)
ConcatPages(d, m) ==
    IF m <= 0 THEN <<>>
    ELSE ConcatPages(d, m - 1) \o (IF m \in DOMAIN d THEN d[m] ELSE <<>>)

SearchLoopDone == spc \in {"rendered", "abort404", "KeyError"} /\ Len(foundResults) # 0

\* C1: once the bucketing loop has run over a non-empty result list of length
\* n, the pages 1..maxPage of dictOfResults, concatenated in page order, are
\* exactly the result list, and maxPage = ceil(n / 10).
C1_PagesPartitionResults ==
    SearchLoopDone =>
        /\ ConcatPages(dictOfResults, maxPage) = foundResults
        /\ maxPage = (Len(foundResults) + PageSize - 1) \div PageSize

\* C15: once the bucketing loop has run over a non-empty result list, the keys
\* of dictOfResults are exactly 1..maxPage, every page holds at most 10
\* results and every page but the last holds exactly 10.
C15_PagesContiguousAndFull ==
    SearchLoopDone =>
        /\ maxPage >= 1
        /\ DOMAIN dictOfResults = 1..maxPage
        /\ \A k \in 1..maxPage : Len(dictOfResults[k]) \in 1..PageSize
        /\ \A k \in 1..(maxPage - 1) : Len(dictOfResults[k]) = PageSize

\* fifteen results: a full first page and a last page of five
C15_Witness ==
    /\ SearchLoopDone
    /\ Len(foundResults) = 15
    /\ maxPage = 2
    /\ Len(dictOfResults[2]) = 5

\* C16: with at least one result found, for every integer p the handler
\* either renders the results of page p, which happens exactly when
\* 1 <= p <= maxPage, or aborts with 404; it never ends in an unhandled error.
C16_TamperedPageHandled ==
    SearchLoopDone =>
        /\ spc \in {"rendered", "abort404"}
        /\ spc = "rendered" <=> page \in 1..maxPage
        /\ spc = "rendered" => shown = dictOfResults[page]

\* ------------------------------------------------------------------------
\* Claims about get_pagination_arr
\* ------------------------------------------------------------------------
\* C2: for pageNum >= 1 and maxPage >= 1 the tuple returned is strictly
\* consecutive and ascending, within 1..maxPage, of length min(5, maxPage),
\* and contains min(pageNum, maxPage).
C2_WindowShape ==
    ppc = "returned" =>
        /\ \A k \in 1..(Len(arr) - 1) : arr[k + 1] = arr[k] + 1
        /\ \A k \in DOMAIN arr : arr[k] \in 1..argMaxPage
        /\ Len(arr) = Min(5, argMaxPage)
        /\ Min(argPageNum, argMaxPage) \in SeqRange(arr)

\* a page number above maxPage, with more than five pages
C2_Witness ==
    ppc = "returned" /\ argPageNum > argMaxPage /\ argMaxPage >= 6

\* C3: for maxPage >= 6, with p = min(pageNum, maxPage), the tuple is the five
\* pages from max(1, min(p-2, maxPage-4)): p-2..p+2 when 3 <= p <= maxPage-2,
\* 1..5 when p < 4, maxPage-4..maxPage when p >= maxPage-2; for maxPage < 6 it
\* is 1..maxPage.
C3_WindowPosition ==
    ppc = "returned" =>
        LET p == Min(argPageNum, argMaxPage)
            first == Max(1, Min(p - 2, argMaxPage - 4))
        IN IF argMaxPage >= 6
           THEN /\ arr = [k \in 1..5 |-> first + k - 1]
                /\ (3 <= p /\ p <= argMaxPage - 2) => arr = [k \in 1..5 |-> p - 3 + k]
                /\ p < 4 => arr = <<1, 2, 3, 4, 5>>
                /\ p >= argMaxPage - 2 => arr = [k \in 1..5 |-> argMaxPage - 5 + k]
           ELSE arr = [k \in 1..argMaxPage |-> k]

\* the docstring's first example: page 5 of 10 gives (3, 4, 5, 6, 7)
C3_Witness ==
    ppc = "returned" /\ argPageNum = 5 /\ argMaxPage = 10 /\ arr = <<3, 4, 5, 6, 7>>

\* ------------------------------------------------------------------------
\* Claims about the cart and the purchases
\* ------------------------------------------------------------------------
NoDuplicates(s) == \A j, k \in DOMAIN s : s[j] = s[k] => j = k

\* C4: after any sequence of add_to_cart, remove_from_cart and
\* purchase_courses, starting from the empty lists of sign-up, no user's cart
\* holds a course id twice, no user's purchased list holds a course id twice,
\* and no course id is in both lists of a user.
C4_CartPurchasedDisjoint ==
    \A u \in Rows(users) :
        /\ NoDuplicates(users[u].cart)
        /\ NoDuplicates(users[u].purchased)
        /\ SeqRange(users[u].cart) \cap SeqRange(users[u].purchased) = {}

\* add_to_cart has run for a user who holds a purchased course and a course in the cart
C4_Witness ==
    /\ session # None
    /\ resp = <<"add_to_cart", "redirect cart">>
    /\ users[session].purchased # <<>>
    /\ users[session].cart # <<>>

\* C5: when a checkout POST of a logged-in user completes, every course that
\* was in the user's cart is in the user's purchased list and the cart is empty.
C5_CheckoutMakesPurchase ==
    [][(session # None /\ resp' = <<"checkout", "redirect purchaseHistory">>) =>
          /\ users'[session].cart = <<>>
          /\ \A c \in SeqRange(users[session].cart) : In(c, users'[session].purchased)]_vars

\* C14: a call of purchase_courses for a user leaves that user's cart empty
\* and the purchased list equal to the previous purchased list, in order,
\* followed by the previous cart's ids that were not already purchased, in
\* cart order; no other user's record changes.
C14_PurchaseAppendsCart ==
    [][resp' = <<"purchase_courses", "None">> =>
          /\ Rows(users') = Rows(users)
          /\ \E u \in Rows(users) :
                /\ users'[u].cart = <<>>
                /\ users'[u].purchased =
                      users[u].purchased
                      \o SelectSeq(users[u].cart, LAMBDA c : ~In(c, users[u].purchased))
                /\ users'[u] = [users[u] EXCEPT !.cart = <<>>,
                                               !.purchased = users'[u].purchased]
                /\ \A v \in Rows(users) \ {u} : users'[v] = users[v]]_vars

\* a second purchase has put course 1 behind course 2, while another user has a cart
C14_Witness ==
    /\ resp = <<"purchase_courses", "None">>
    /\ \E u \in Rows(users) :
          /\ users[u].purchased = <<2, 1>>
          /\ users[u].cart = <<>>
          /\ \E v \in Rows(users) \ {u} : users[v].cart # <<>>

\* ------------------------------------------------------------------------
\* Claims about publishing
\* ------------------------------------------------------------------------
\* C6: create_course inserts a course row only when the logged-in user's role
\* is Teacher; a request of a Student never inserts a course.
C6_OnlyTeachersPublish ==
    [][courses' # courses => (session # None /\ users[session].role = "Teacher")]_vars

\* ------------------------------------------------------------------------
\* Claims about passwords
\* ------------------------------------------------------------------------
SixPredicates == {"LENGTH", "LOWERCASE", "UPPERCASE", "DIGIT", "SPECIAL_CHAR",
                  "TWO_REPEAT_CHAR"}

\* C7: with strict=False pwd_is_strong returns True exactly when the
\* allowed-character pattern matches the whole password and at least 3 of the
\* six predicates match; with strict=True it returns exactly whether the
\* strict pattern matches, whatever the six predicates say.
C7_StrengthThreshold ==
    qpc = "returned" =>
        IF qstrict
        THEN qret = qpassword.STRICT_PASSWORD
        ELSE qret = (/\ qpassword.ALLOWED_CHAR
                     /\ Cardinality({f \in SixPredicates : qpassword[f]}) >= 3)

\* a password that matches all six predicates and has a character not allowed
C7_Witness ==
    /\ qpc = "returned"
    /\ ~qstrict
    /\ ~qpassword.ALLOWED_CHAR
    /\ \A f \in SixPredicates : qpassword[f]
    /\ qret = FALSE

Last(s) == s[Len(s)]

C8_RetryInvariant ==
    /\ \A k \in DOMAIN sent : sent[k] = hashPrefix
    /\ Len(sent) = Len(statuses)
    /\ hpc \in {"request", "sleep"} =>
          /\ \A k \in DOMAIN statuses : statuses[k] = 429
          /\ hret.type = "none"
    /\ hpc = "sleep" => statuses # <<>>
    /\ hpc = "returned" =>
          /\ Last(statuses) # 429
          /\ \A k \in 1..(Len(statuses) - 1) : statuses[k] = 429

\* C8: every 429 makes pwd_has_been_pwned sleep and request the same range
\* again, it never returns on a 429, it returns on the first status that is
\* not 429, and so a call ends once the API answers with another status.
C8_RetryOn429 ==
    /\ []C8_RetryInvariant
    /\ (hpc = "request") ~> (hpc = "returned")

\* a call that returned after the API had answered 429 twice
C8_Witness ==
    /\ hpc = "returned"
    /\ Len(statuses) >= 3
    /\ statuses[1] = 429 /\ statuses[2] = 429
    /\ Len(sent) = Len(statuses)

\* the text of a line before its first ":", or the whole line
BeforeColon(line) ==
    LET colons == {j \in DOMAIN line : line[j] = ":"}
        n == IF colons = {} THEN Len(line)
             ELSE (CHOOSE j \in colons : \A i \in colons : j <= i) - 1
    IN SubSeq(line, 1, n)

\* C9: after a 200, pwd_has_been_pwned returns True if and only if some line
\* of the response has, before its first ":", exactly the upper-case SHA-1 hex
\* digest of the password without its first five characters; else False.
C9_PwnedIffSuffixListed ==
    (hpc = "returned" /\ Last(statuses) = 200) =>
        /\ hret.type = "bool"
        /\ hret.val = (\E k \in DOMAIN response.lines :
                          BeforeColon(response.lines[k])
                              = SubSeq(upper(password.sha1), 6, HashLen))

\* found on the second line, after a first line that holds the suffix in lower case
C9_Witness ==
    /\ hpc = "returned"
    /\ hret.type = "bool"
    /\ hret.val = TRUE
    /\ Len(response.lines) = 2
    /\ response.lines[1] = SubSeq(password.sha1, 6, HashLen) \o <<":", "3">>
    /\ response.lines[1] # response.lines[2]

\* C10: on a status other than 200 and 429 pwd_has_been_pwned does not retry
\* and returns the pair (pwd_is_strong(password, strict=True), "strict"); a
\* plain boolean is returned only after a 200.
C10_OtherStatusStrictTuple ==
    /\ (statuses # <<>> /\ Last(statuses) \notin {200, 429}) =>
          /\ hpc = "returned"
          /\ hret.type = "tuple"
          /\ hret.val = <<password.STRICT_PASSWORD, "strict">>
    /\ hret.type = "bool" => Last(statuses) = 200

\* a 503 after one retry, for a password the strict pattern matches
C10_Witness ==
    /\ hpc = "returned"
    /\ statuses = <<429, 503>>
    /\ hret.type = "tuple"
    /\ hret.val = <<TRUE, "strict">>


\* ------------------------------------------------------------------------
\* Claims about the Cloud KMS helpers
\* ------------------------------------------------------------------------
EncryptReturned == kpc = "returned" /\ kfn = "symmetric_encrypt"

\* C11: symmetric_encrypt returns the ciphertext only when the response says
\* the plaintext checksum was verified and the response's ciphertext checksum
\* equals crc32c of the ciphertext returned; when the KMS API has answered and
\* either test fails, CRC32ChecksumError is raised and no ciphertext is
\* returned.
C11_EncryptChecksums ==
    EncryptReturned =>
        /\ kret.outcome = "return" =>
              /\ kanswer.kind = "ok"
              /\ kanswer.verified_plaintext_crc32c
              /\ kanswer.ciphertext_crc32c = crc32c(kret.val)
              /\ kret.val = Value("bytes", kanswer.ciphertext)
        /\ (/\ kanswer.kind = "ok"
            /\ ~(/\ kanswer.verified_plaintext_crc32c
                 /\ kanswer.ciphertext_crc32c = crc32c(Value("bytes", kanswer.ciphertext))))
              => /\ kret.outcome = "raise"
                 /\ kret.error = "CRC32ChecksumError"
                 /\ kret.val = NoneValue

\* a verified response whose ciphertext checksum is that of another ciphertext
C11_Witness ==
    /\ EncryptReturned
    /\ kanswer.kind = "ok"
    /\ kanswer.verified_plaintext_crc32c
    /\ kanswer.ciphertext # <<>>
    /\ kanswer.ciphertext_crc32c # crc32c(Value("bytes", kanswer.ciphertext))
    /\ kret.error = "CRC32ChecksumError"


DecryptReturned == kpc = "returned" /\ kfn = "symmetric_decrypt"
IsBytes(v) == v.type \in {"bytes", "bytearray"}

\* C12: symmetric_decrypt raises CiphertextIsNotBytesError, before any request
\* is sent to the KMS API, when the ciphertext is neither bytes nor a
\* bytearray; an InvalidArgument error from the KMS API is logged and turned
\* into DecryptionError; a response whose plaintext_crc32c is not crc32c of
\* its plaintext raises CRC32ChecksumError; and a plaintext is returned only
\* when that checksum matches.
C12_DecryptErrors ==
    DecryptReturned =>
        /\ ~IsBytes(karg) =>
              /\ kret.outcome = "raise"
              /\ kret.error = "CiphertextIsNotBytesError"
              /\ kret.requests = <<>>
        /\ (IsBytes(karg) /\ kanswer.kind = "InvalidArgument") =>
              /\ kret.outcome = "raise"
              /\ kret.error = "DecryptionError"
              /\ kret.log = <<[severity |-> "INFO"]>>
        /\ (/\ IsBytes(karg)
            /\ kanswer.kind = "ok"
            /\ kanswer.plaintext_crc32c # crc32c(Value("bytes", kanswer.plaintext))) =>
              /\ kret.outcome = "raise"
              /\ kret.error = "CRC32ChecksumError"
        /\ kret.outcome = "return" =>
              /\ IsBytes(karg)
              /\ Len(kret.requests) = 1
              /\ kanswer.kind = "ok"
              /\ kanswer.plaintext_crc32c = crc32c(Value("bytes", kanswer.plaintext))
              /\ kret.val = IF kdecode
                             THEN Value("str", decode_utf8(kanswer.plaintext).chars)
                             ELSE Value("bytes", kanswer.plaintext)

\* a str ciphertext, for which the KMS API would have had an answer
C12_Witness ==
    /\ DecryptReturned
    /\ karg.type = "str"
    /\ karg.data # <<>>
    /\ kanswer.kind = "ok"
    /\ kret.error = "CiphertextIsNotBytesError"


TokenReturned == kpc = "returned" /\ kfn = "decode_and_decrypt_token"

\* the input is base64, the KMS API decrypts it, the checksum matches and the
\* plaintext is UTF-8 text
TokenDecrypted ==
    /\ urlsafe_b64decode(karg).error = None
    /\ kanswer.kind = "ok"
    /\ kanswer.plaintext_crc32c = crc32c(Value("bytes", kanswer.plaintext))
    /\ decode_utf8(kanswer.plaintext).ok

\* C13: decode_and_decrypt_token never raises; it returns None or the
\* decrypted string, and the latter only when that string has exactly 240
\* characters; tampered base64, a decryption error, a checksum error and a
\* plaintext that is no text all give None.
C13_TokenOrNone ==
    TokenReturned =>
        /\ kret.outcome = "return"
        /\ ~TokenDecrypted => kret.val = NoneValue
        /\ kret.val # NoneValue =>
              /\ kret.val = Value("str", decode_utf8(kanswer.plaintext).chars)
              /\ Len(kret.val.data) = TokenLen
        /\ (TokenDecrypted /\ Len(decode_utf8(kanswer.plaintext).chars) = TokenLen)
              => kret.val # NoneValue

\* a token of 240 characters held in 241 bytes is returned
C13_Witness ==
    /\ TokenReturned
    /\ kret.val.type = "str"
    /\ Len(kret.val.data) = TokenLen
    /\ Len(kanswer.plaintext) = TokenLen + 1


\* ------------------------------------------------------------------------
\* Claims about the account routes
\* ------------------------------------------------------------------------
HeldByAnother(field, value) ==
    \E v \in Rows(users) \ {session} : users[v][field] = value

\* C17: change_username and change_email answer that the value is already
\* taken / used by another user only when another user's row holds the
\* requested value, and when the edit stores the value the handler redirects
\* to the user profile.
C17_TakenOnlyWhenHeldByAnother ==
    [][/\ \A name \in UsernameInputs :
            (session # None /\ updateUsername("POST", TRUE, name)) =>
                /\ resp'[2] = "Sorry, Username has already been taken!"
                      => HeldByAnother("username", name)
                /\ users'[session].username # users[session].username
                      => resp'[2] = "redirect userProfile"
       /\ \A address \in EmailInputs :
            (session # None /\ updateEmail("POST", TRUE, address)) =>
                /\ resp'[2] = "Sorry, Email is been used by another user!"
                      => HeldByAnother("email", address)
                /\ users'[session].email # users[session].email
                      => resp'[2] = "redirect userProfile"]_vars

\* C18: a call of edit makes a user's role Teacher only when newAccType is
\* true, and a call with newAccType false leaves the role as it was.
C18_TeacherOnlyWhenTrue ==
    [][\A u \in Rows(users), kw \in RoleKws :
          EditCall(u, kw) =>
              /\ (users[u].role # "Teacher" /\ users'[u].role = "Teacher")
                    => kw.newAccType = True
              /\ kw.newAccType = False => users'[u].role = users[u].role]_vars

\* what a call of edit for user u with oldPassword old and password new does
\* to the table, and the message msg it returns
PasswordEffect(u, old, new, msg) ==
    LET stored == users[u].password IN
    /\ users'[u].password # stored => (old = stored /\ new # stored)
    /\ old # stored =>
          /\ msg = "Password does not match previous password!"
          /\ users' = users
    /\ (old = stored /\ new = stored) =>
          /\ msg = "Cannot Reuse previous password!"
          /\ users' = users
    /\ (old = stored /\ new # stored) =>
          users' = [users EXCEPT ![u].password = new]

\* C19: a password change through edit takes effect only when oldPassword is
\* the stored password and the new password differs from it; otherwise edit
\* returns 'Password does not match previous password!' or 'Cannot Reuse
\* previous password!' and the table is unchanged.  updatePassword flashes the
\* message edit returns.
C19_PasswordChange ==
    [][/\ \A u \in Rows(users), kw \in PasswordKws :
            EditCall(u, kw) => PasswordEffect(u, kw.oldPassword, kw.password, resp'[2])
       /\ \A cur \in PasswordInputs, new \in PasswordInputs :
            (session # None /\ updatePassword("POST", TRUE, cur, new, new))
                => PasswordEffect(session, cur, new, resp'[2])]_vars

\* alice, who signed up with pw1, has changed the password to pw2
C19_Witness ==
    /\ session # None
    /\ resp = <<"change_password", "redirect userProfile">>
    /\ users[session].username = "alice"
    /\ users[session].password = "pw2"

====
